---- MODULE Spec2Model ----
(***************************************************************************)
(* A model of the FastBernoulli sampler of src/src/lib.rs.                 *)
(*                                                                         *)
(* Numbers.  The counter is a u32 in the source; here it ranges over       *)
(* 0..MaxCount.  The f64 values the source computes with are modelled by a *)
(* small binary floating-point format with a 2-bit significand, written as *)
(* integers counting sixteenths: 16 is 1.0, 8 is 0.5, 1 is the smallest    *)
(* positive probability used.  As in f64, a subtraction rounds to the      *)
(* nearest representable value, ties to the even significand, so that      *)
(* `1.0 - probability` is 1.0 for a probability below half an ulp of 1.0.  *)
(* The random source is an input: each operation is given the value `x`    *)
(* the source yields if it is asked.                                       *)
(***************************************************************************)
EXTENDS Integers, Sequences, FiniteSets, TLC

\* The counter's maximum, u32::MAX in the source, scaled down.
MaxCount == 3

\* The number of trial()/multi_trial() calls a behaviour makes.
MaxCalls == 4

\* The number of multi_trial() calls in a run of batches.
MaxBatches == 2

\* f64 arguments given to `new`, in sixteenths: two outside 0.0 ..= 1.0,
\* the two edge cases, and representable values strictly between.
ProbInputs == {-1, 0, 1, 4, 8, 12, 16, 24}

\* Values of `rng.gen_range(0.0..1.0)`, in sixteenths: representable values
\* of the half-open interval [0.0, 1.0).
XDraws == {0, 1, 2, 3, 4, 6, 8, 12}

\* Arguments `n: u32` of multi_trial.
Counts == 0 .. MaxCount

VARIABLES
    debug_assertions, \* whether the build keeps debug_assert! (a debug build)
    state,            \* "none": before new; "live": a sampler exists; "panicked"
    bernoulli,        \* the FastBernoulli value: [probability, skip_count]
    given,            \* the probability argument that was passed to new
    op,               \* the last operation called
    arg_n,            \* the argument n of the last multi_trial call
    result,           \* the bool the last trial/multi_trial call returned
    observed,         \* the value the last accessor call returned
    drew,             \* draws the last operation took from the random source
    refreshed,        \* whether the last operation called reset_skip_count
    calls,            \* trial/multi_trial calls so far
    draws,            \* draws taken from the random source so far
    trues             \* trial/multi_trial calls that returned true so far

vars == <<debug_assertions, state, bernoulli, given, op, arg_n, result,
          observed, drew, refreshed, calls, draws, trues>>

----------------------------------------------------------------------------
(* f64 arithmetic of reset_skip_count *)

\* The spacing of representable values around v (in sixteenths).
Ulp(v) == IF v >= 8 THEN 4 ELSE IF v >= 4 THEN 2 ELSE 1

\* Round v to the nearest representable value, ties to the even significand.
RoundTiesEven(v) ==
    LET u  == Ulp(v)
        lo == (v \div u) * u
        hi == lo + u
    IN  IF v = lo THEN v
        ELSE IF 2 * (v - lo) < u THEN lo
        ELSE IF 2 * (v - lo) > u THEN hi
        ELSE IF (lo \div u) % 2 = 0 THEN lo ELSE hi

\* `1.0 - self.probability` in f64.
OneMinus(p) == RoundTiesEven(16 - p)

RECURSIVE Pow(_, _)
Pow(b, e) == IF e = 0 THEN 1 ELSE b * Pow(b, e - 1)

RECURSIVE Gcd(_, _)
Gcd(a, b) == IF b = 0 THEN a ELSE Gcd(b, a % b)

\* For 0 < x < 1 and 0 < q < 1 (sixteenths): floor(ln x / ln q) is the least
\* k with q^(k+1) < x.  The search starts at k and stops above MaxCount,
\* where every value takes the same branch of the comparison with the maximum.
RECURSIVE FloorLogRatio(_, _, _)
FloorLogRatio(x, q, k) ==
    LET g  == Gcd(q, 16)
        qn == q \div g
        qd == 16 \div g
    IN  IF k > MaxCount THEN k
        ELSE IF Pow(qn, k + 1) * 16 < x * Pow(qd, k + 1) THEN k
        ELSE FloorLogRatio(x, q, k + 1)

\* `(x.ln() / (1.0 - self.probability).ln()).floor()` as an f64:
\* cls is "neginf", "finite", "posinf" or "nan"; val is the finite value.
\*   ln(0.0) = -inf, ln(1.0) = +0.0, ln of a value in (0, 1) is negative;
\*   negative / +0.0 = -inf, -inf / negative = +inf, -inf / -inf = NaN.
F64SkipCount(x, p) ==
    LET q == OneMinus(p)
    IN  IF q >= 16 THEN [cls |-> "neginf", val |-> 0]
        ELSE IF q = 0
             THEN IF x = 0 THEN [cls |-> "nan", val |-> 0]
                           ELSE [cls |-> "finite", val |-> 0]
        ELSE IF x = 0 THEN [cls |-> "posinf", val |-> 0]
        ELSE [cls |-> "finite", val |-> FloorLogRatio(x, q, 0)]

\* `skip_count >= 0.0`
GeZero(f) == f.cls = "posinf" \/ (f.cls = "finite" /\ f.val >= 0)

\* `skip_count <= (u32::MAX as f64)`
LeMax(f) == f.cls = "neginf" \/ (f.cls = "finite" /\ f.val <= MaxCount)

\* `skip_count as u32`: the saturating float-to-integer cast (NaN gives 0).
AsU32(f) ==
    IF f.cls = "neginf" \/ f.cls = "nan" THEN 0
    ELSE IF f.cls = "posinf" THEN MaxCount
    ELSE IF f.val < 0 THEN 0
    ELSE IF f.val > MaxCount THEN MaxCount
    ELSE f.val

----------------------------------------------------------------------------
(* The methods of FastBernoulli, as functions of the value `self`, the      *)
(* value x the random source yields if asked, and the build.  Each gives   *)
(* the value after the call, what the call returned, the number of draws   *)
(* it took and whether it panicked.                                        *)

\* reset_skip_count without its `probability == 1.0` case.
reset_skip_count_no_one_case(self, x, dbg) ==
    IF self.probability = 0
    THEN [self |-> [self EXCEPT !.skip_count = MaxCount],
          drew |-> 0, panicked |-> FALSE]
    ELSE LET skip == F64SkipCount(x, self.probability)
         IN  IF dbg /\ ~GeZero(skip)
             THEN [self |-> self, drew |-> 1, panicked |-> TRUE]
             ELSE [self |-> [self EXCEPT !.skip_count =
                                 IF LeMax(skip) THEN AsU32(skip) ELSE MaxCount],
                   drew |-> 1, panicked |-> FALSE]

\* reset_skip_count taking its draw before it looks at the edge cases.
reset_skip_count_draws_first(self, x, dbg) ==
    IF self.probability = 0
    THEN [self |-> [self EXCEPT !.skip_count = MaxCount],
          drew |-> 1, panicked |-> FALSE]
    ELSE IF self.probability = 16
    THEN [self |-> [self EXCEPT !.skip_count = 0],
          drew |-> 1, panicked |-> FALSE]
    ELSE LET skip == F64SkipCount(x, self.probability)
         IN  IF dbg /\ ~GeZero(skip)
             THEN [self |-> self, drew |-> 1, panicked |-> TRUE]
             ELSE [self |-> [self EXCEPT !.skip_count =
                                 IF LeMax(skip) THEN AsU32(skip) ELSE MaxCount],
                   drew |-> 1, panicked |-> FALSE]

reset_skip_count(self, x, dbg) ==
    IF self.probability = 0
    THEN [self |-> [self EXCEPT !.skip_count = MaxCount],
          drew |-> 0, panicked |-> FALSE]
    ELSE IF self.probability = 16
    THEN [self |-> [self EXCEPT !.skip_count = 0],
          drew |-> 0, panicked |-> FALSE]
    ELSE LET skip == F64SkipCount(x, self.probability)
         IN  IF dbg /\ ~GeZero(skip)
             THEN [self |-> self, drew |-> 1, panicked |-> TRUE]
             ELSE [self |-> [self EXCEPT !.skip_count =
                                 IF LeMax(skip) THEN AsU32(skip) ELSE MaxCount],
                   drew |-> 1, panicked |-> FALSE]

new(p, x, dbg) ==
    IF ~(0 <= p /\ p <= 16)
    THEN [self |-> [probability |-> p, skip_count |-> 0],
          drew |-> 0, panicked |-> TRUE]
    ELSE reset_skip_count([probability |-> p, skip_count |-> 0], x, dbg)

\* trial leaving its fast path one call early (`skip_count > 1`).
trial_guard_off_by_one(self, x, dbg) ==
    IF self.skip_count > 1
    THEN [self |-> [self EXCEPT !.skip_count = @ - 1], ret |-> FALSE,
          drew |-> 0, panicked |-> FALSE, refreshed |-> FALSE]
    ELSE LET r == reset_skip_count(self, x, dbg)
         IN  [self |-> r.self, ret |-> (r.self.probability # 0),
              drew |-> r.drew, panicked |-> r.panicked, refreshed |-> TRUE]

\* trial returning true after every refresh (no `probability != 0.0`).
trial_ignores_zero(self, x, dbg) ==
    IF self.skip_count > 0
    THEN [self |-> [self EXCEPT !.skip_count = @ - 1], ret |-> FALSE,
          drew |-> 0, panicked |-> FALSE, refreshed |-> FALSE]
    ELSE LET r == reset_skip_count(self, x, dbg)
         IN  [self |-> r.self, ret |-> TRUE,
              drew |-> r.drew, panicked |-> r.panicked, refreshed |-> TRUE]

\* trial asking the random source on every call, the fast path included.
trial_draws_every_call(self, x, dbg) ==
    IF self.skip_count > 0
    THEN [self |-> [self EXCEPT !.skip_count = @ - 1], ret |-> FALSE,
          drew |-> 1, panicked |-> FALSE, refreshed |-> FALSE]
    ELSE LET r == reset_skip_count(self, x, dbg)
         IN  [self |-> r.self, ret |-> (r.self.probability # 0),
              drew |-> r.drew, panicked |-> r.panicked, refreshed |-> TRUE]

trial(self, x, dbg) ==
    IF self.skip_count > 0
    THEN [self |-> [self EXCEPT !.skip_count = @ - 1], ret |-> FALSE,
          drew |-> 0, panicked |-> FALSE, refreshed |-> FALSE]
    ELSE LET r == reset_skip_count(self, x, dbg)
         IN  [self |-> r.self, ret |-> (r.self.probability # 0),
              drew |-> r.drew, panicked |-> r.panicked, refreshed |-> TRUE]

\* multi_trial lowering the counter by 1 instead of n.
multi_trial_decrements_one(self, n, x, dbg) ==
    IF n < self.skip_count
    THEN [self |-> [self EXCEPT !.skip_count = @ - 1], ret |-> FALSE,
          drew |-> 0, panicked |-> FALSE, refreshed |-> FALSE]
    ELSE LET r == reset_skip_count(self, x, dbg)
         IN  [self |-> r.self, ret |-> (r.self.probability # 0),
              drew |-> r.drew, panicked |-> r.panicked, refreshed |-> TRUE]

\* multi_trial guarding its subtraction as trial does (`skip_count > 0`).
multi_trial_guard_nonzero(self, n, x, dbg) ==
    IF self.skip_count > 0
    THEN [self |-> [self EXCEPT !.skip_count = @ - n], ret |-> FALSE,
          drew |-> 0, panicked |-> FALSE, refreshed |-> FALSE]
    ELSE LET r == reset_skip_count(self, x, dbg)
         IN  [self |-> r.self, ret |-> (r.self.probability # 0),
              drew |-> r.drew, panicked |-> r.panicked, refreshed |-> TRUE]

\* multi_trial returning false on its fast path without the subtraction.
multi_trial_keeps_count(self, n, x, dbg) ==
    IF n < self.skip_count
    THEN [self |-> self, ret |-> FALSE,
          drew |-> 0, panicked |-> FALSE, refreshed |-> FALSE]
    ELSE LET r == reset_skip_count(self, x, dbg)
         IN  [self |-> r.self, ret |-> (r.self.probability # 0),
              drew |-> r.drew, panicked |-> r.panicked, refreshed |-> TRUE]

multi_trial(self, n, x, dbg) ==
    IF n < self.skip_count
    THEN [self |-> [self EXCEPT !.skip_count = @ - n], ret |-> FALSE,
          drew |-> 0, panicked |-> FALSE, refreshed |-> FALSE]
    ELSE LET r == reset_skip_count(self, x, dbg)
         IN  [self |-> r.self, ret |-> (r.self.probability # 0),
              drew |-> r.drew, panicked |-> r.panicked, refreshed |-> TRUE]

probability(self) == [self |-> self, ret |-> self.probability]

\* skip_count taking the counter out of the sampler as it reads it.
skip_count_takes(self) ==
    [self |-> [self EXCEPT !.skip_count = 0], ret |-> self.skip_count]

skip_count(self) == [self |-> self, ret |-> self.skip_count]

----------------------------------------------------------------------------
(* The state machine: one caller owns the sampler and calls its methods.   *)

Init ==
    /\ debug_assertions \in BOOLEAN
    /\ state = "none"
    /\ bernoulli = [probability |-> 0, skip_count |-> 0]
    /\ given = 0
    /\ op = "none"
    /\ arg_n = 0
    /\ result = FALSE
    /\ observed = 0
    /\ drew = 0
    /\ refreshed = FALSE
    /\ calls = 0
    /\ draws = 0
    /\ trues = 0

New(p, x) ==
    /\ state = "none"
    /\ LET r == new(p, x, debug_assertions)
       IN  /\ state' = IF r.panicked THEN "panicked" ELSE "live"
           /\ bernoulli' = r.self
           /\ drew' = r.drew
           /\ draws' = draws + r.drew
    /\ given' = p
    /\ op' = "new"
    /\ refreshed' = (0 <= p /\ p <= 16)
    /\ UNCHANGED <<debug_assertions, arg_n, result, observed, calls, trues>>

Trial(x) ==
    /\ state = "live"
    /\ calls < MaxCalls
    /\ LET r == trial(bernoulli, x, debug_assertions)
       IN  /\ state' = IF r.panicked THEN "panicked" ELSE "live"
           /\ bernoulli' = r.self
           /\ result' = (~r.panicked /\ r.ret)
           /\ drew' = r.drew
           /\ draws' = draws + r.drew
           /\ refreshed' = r.refreshed
           /\ trues' = trues + (IF ~r.panicked /\ r.ret THEN 1 ELSE 0)
    /\ op' = "trial"
    /\ arg_n' = 0
    /\ calls' = calls + 1
    /\ UNCHANGED <<debug_assertions, given, observed>>

MultiTrial(n, x) ==
    /\ state = "live"
    /\ calls < MaxCalls
    /\ LET r == multi_trial(bernoulli, n, x, debug_assertions)
       IN  /\ state' = IF r.panicked THEN "panicked" ELSE "live"
           /\ bernoulli' = r.self
           /\ result' = (~r.panicked /\ r.ret)
           /\ drew' = r.drew
           /\ draws' = draws + r.drew
           /\ refreshed' = r.refreshed
           /\ trues' = trues + (IF ~r.panicked /\ r.ret THEN 1 ELSE 0)
    /\ op' = "multi_trial"
    /\ arg_n' = n
    /\ calls' = calls + 1
    /\ UNCHANGED <<debug_assertions, given, observed>>

Probability ==
    /\ state = "live"
    /\ LET r == probability(bernoulli)
       IN  /\ bernoulli' = r.self
           /\ observed' = r.ret
    /\ op' = "probability"
    /\ drew' = 0
    /\ refreshed' = FALSE
    /\ UNCHANGED <<debug_assertions, state, given, arg_n, result, calls,
                   draws, trues>>

SkipCount ==
    /\ state = "live"
    /\ LET r == skip_count(bernoulli)
       IN  /\ bernoulli' = r.self
           /\ observed' = r.ret
    /\ op' = "skip_count"
    /\ drew' = 0
    /\ refreshed' = FALSE
    /\ UNCHANGED <<debug_assertions, state, given, arg_n, result, calls,
                   draws, trues>>

Next ==
    \/ \E p \in ProbInputs, x \in XDraws : New(p, x)
    \/ \E x \in XDraws : Trial(x)
    \/ \E n \in Counts, x \in XDraws : MultiTrial(n, x)
    \/ Probability
    \/ SkipCount

Spec == Init /\ [][Next]_vars

\* The callers that never read the accessors: the operations that can
\* change the sampler.
NextCalls ==
    \/ \E p \in ProbInputs, x \in XDraws : New(p, x)
    \/ \E x \in XDraws : Trial(x)
    \/ \E n \in Counts, x \in XDraws : MultiTrial(n, x)

SpecCalls == Init /\ [][NextCalls]_vars

TypeOK ==
    /\ debug_assertions \in BOOLEAN
    /\ state \in {"none", "live", "panicked"}
    /\ op \in {"none", "new", "trial", "multi_trial", "probability", "skip_count"}
    /\ result \in BOOLEAN
    /\ drew \in 0 .. 1

----------------------------------------------------------------------------
(* Runs of consecutive trial() calls.  A stream xs is a fixed sequence of  *)
(* values of the random source, read in order (a pair, read cyclically);   *)
(* a call that takes a draw advances it.                                   *)

Streams == XDraws \X XDraws

Advance(xs, r) == IF r.drew = 1 THEN <<xs[2], xs[1]>> ELSE xs

\* The results of m consecutive trial() calls starting from self, in order;
\* the run ends early at a call that panics.
RECURSIVE TrialResults(_, _, _, _)
TrialResults(self, m, xs, dbg) ==
    IF m = 0 THEN <<>>
    ELSE LET r == trial(self, xs[1], dbg)
         IN  IF r.panicked THEN <<>>
             ELSE <<r.ret>> \o TrialResults(r.self, m - 1, Advance(xs, r), dbg)

AnyTrue(rs) == \E i \in 1 .. Len(rs) : rs[i]

Live == state = "live"

Interior(p) == 0 < p /\ p < 16

----------------------------------------------------------------------------
\* C1: in every reachable sampler state, for every n and every stream of
\* draws, multi_trial(n) returns true iff at least one of n consecutive
\* trial() calls from the same state, fed the same draws, returns true.
C1_MultiTrialIsAnyOfNTrials ==
    Live =>
        \A n \in Counts, xs \in Streams :
            multi_trial(bernoulli, n, xs[1], debug_assertions).ret
                = AnyTrue(TrialResults(bernoulli, n, xs, debug_assertions))

\* C2: with probability > 0.0, if skip_count() returns k then the next k
\* trial() calls all return false and call k+1 returns true.
C2_TrueAfterSkipCount ==
    (Live /\ bernoulli.probability > 0) =>
        \A xs \in Streams :
            LET k  == skip_count(bernoulli).ret
                rs == TrialResults(bernoulli, k + 1, xs, debug_assertions)
            IN  /\ Len(rs) = k + 1
                /\ \A i \in 1 .. k : ~rs[i]
                /\ rs[k + 1]

\* A true trial() that followed at least two false calls on a sampler with
\* 0 < probability < 1.
C2_Witness ==
    /\ Live /\ Interior(bernoulli.probability)
    /\ op = "trial" /\ result /\ refreshed
    /\ calls >= 3 /\ trues = 1

\* C3: with probability 0.0 no trial() or multi_trial(n) call ever returns
\* true, the calls that refresh the skip count included.
C3_ZeroNeverTrue ==
    (state # "none" /\ given = 0) =>
        /\ op \in {"trial", "multi_trial"} => ~result
        /\ trues = 0
        /\ \A x \in XDraws :
              /\ ~trial(bernoulli, x, debug_assertions).ret
              /\ \A n \in Counts :
                    ~multi_trial(bernoulli, n, x, debug_assertions).ret

\* A trial() call on a probability-0.0 sampler whose skip count had run
\* down to 0, so that the call refreshed it.
C3_Witness ==
    /\ Live /\ given = 0
    /\ op = "trial" /\ refreshed /\ ~result
    /\ bernoulli.skip_count = MaxCount

\* C4: with probability 1.0 every trial() returns true and skip_count() is 0
\* after construction and before and after every trial().
C4_OneAlwaysTrue ==
    (Live /\ given = 16) =>
        /\ bernoulli.skip_count = 0
        /\ op = "trial" => result
        /\ \A x \in XDraws :
              LET r == trial(bernoulli, x, debug_assertions)
              IN  r.ret /\ ~r.panicked /\ r.self.skip_count = 0

\* Two or more calls, all trial() or multi_trial(), all true, probability 1.0.
C4_Witness ==
    /\ Live /\ given = 16
    /\ op = "trial" /\ result
    /\ calls >= 2 /\ trues = calls

\* C5: new(probability, rng) panics for every probability < 0.0 or > 1.0 and
\* for no probability in 0.0 ..= 1.0, whatever the random source yields; a
\* sampler that is constructed holds the probability it was given.
C5_NewPanicsIffOutOfRange ==
    op = "new" =>
        /\ state = "panicked" <=> (given < 0 \/ given > 16)
        /\ state = "live" => bernoulli.probability = given

\* C7: the fast paths take no draw and decrement exactly: trial() with
\* skip_count > 0 returns false and lowers skip_count by 1; multi_trial(n)
\* with n < skip_count returns false and lowers skip_count by n.
C7_FastPath ==
    [][
        /\ (op' = "trial" /\ calls' = calls + 1 /\ bernoulli.skip_count > 0) =>
              /\ ~result'
              /\ bernoulli'.skip_count = bernoulli.skip_count - 1
              /\ drew' = 0 /\ draws' = draws /\ ~refreshed'
        /\ (op' = "multi_trial" /\ calls' = calls + 1
                /\ arg_n' < bernoulli.skip_count) =>
              /\ ~result'
              /\ bernoulli'.skip_count = bernoulli.skip_count - arg_n'
              /\ drew' = 0 /\ draws' = draws /\ ~refreshed'
    ]_vars

\* A multi_trial(n) call with 2 <= n < skip_count has just returned.
C7_Witness ==
    /\ Live /\ op = "multi_trial" /\ arg_n >= 2
    /\ ~refreshed /\ ~result /\ drew = 0
    /\ bernoulli.skip_count >= 1

\* C8 as stated: new with any probability in 0.0 ..= 1.0 takes exactly one
\* draw from the random source.
C8_NewDrawsOnce ==
    (op = "new" /\ 0 <= given /\ given <= 16) => (drew = 1 /\ draws = 1)

\* C8 amended: new with a probability strictly between 0.0 and 1.0 takes
\* exactly one draw; with probability 0.0 or 1.0 it takes none.
C8_NewDrawsOnceInterior ==
    (op = "new" /\ 0 <= given /\ given <= 16) =>
        /\ drew = (IF Interior(given) THEN 1 ELSE 0)
        /\ draws = drew

\* A sampler constructed with an edge probability, no draw taken.
C8_Witness ==
    /\ Live /\ op = "new" /\ given \in {0, 16} /\ draws = 0

\* C9: skip_count() lies in 0 ..= MAX after construction and after any
\* sequence of trial() and multi_trial(n) calls with n in the counter's range.
C9_SkipCountInRange ==
    state # "none" =>
        /\ bernoulli.skip_count \in 0 .. MaxCount
        /\ Live =>
              \A x \in XDraws :
                  /\ trial(bernoulli, x, debug_assertions).self.skip_count
                        \in 0 .. MaxCount
                  /\ \A n \in Counts :
                        multi_trial(bernoulli, n, x,
                                    debug_assertions).self.skip_count
                            \in 0 .. MaxCount

\* A fast-path multi_trial(n) with n >= 1 that left the counter at 1, its
\* lowest value on that path.
C9_Witness ==
    /\ Live /\ op = "multi_trial" /\ arg_n >= 1 /\ ~refreshed
    /\ bernoulli.skip_count = 1

\* C10: no operation changes the probability, which stays the value passed
\* to new; probability() and skip_count() return the fields, change no
\* state and take no draw.
C10_ProbabilityFixedAccessorsPure ==
    [][
        /\ Live => bernoulli'.probability = bernoulli.probability
        /\ state' = "live" => bernoulli'.probability = given'
        /\ op' = "probability" =>
              /\ observed' = bernoulli.probability
              /\ bernoulli' = bernoulli /\ draws' = draws /\ drew' = 0
        /\ op' = "skip_count" =>
              /\ observed' = bernoulli.skip_count
              /\ bernoulli' = bernoulli /\ draws' = draws /\ drew' = 0
        /\ (op' = op /\ op \in {"probability", "skip_count"}) =>
              observed' = observed
    ]_vars

\* skip_count() read after some calls on a sampler with 0 < probability < 1
\* and a non-zero counter.
C10_Witness ==
    /\ Live /\ op = "skip_count" /\ calls >= 2
    /\ Interior(given) /\ bernoulli.probability = given
    /\ observed = bernoulli.skip_count /\ observed > 0

----------------------------------------------------------------------------
(* Runs of consecutive multi_trial() calls. *)

\* Sequences of batch sizes n_1, n_2, ..., each >= 1.
BatchSeqs == UNION {[1 .. l -> 1 .. MaxCount] : l \in 1 .. MaxBatches}

\* What each of the calls multi_trial(ns[1]), multi_trial(ns[2]), ... gives,
\* starting from self, in order; the run ends early at a call that panics.
RECURSIVE MultiTrialRun(_, _, _, _)
MultiTrialRun(self, ns, xs, dbg) ==
    IF ns = <<>> THEN <<>>
    ELSE LET r == multi_trial(self, Head(ns), xs[1], dbg)
         IN  IF r.panicked THEN <<>>
             ELSE <<[ret |-> r.ret, drew |-> r.drew,
                     skip_count |-> r.self.skip_count]>>
                  \o MultiTrialRun(r.self, Tail(ns), Advance(xs, r), dbg)

\* The index of the first call of a run that returned true, 0 if none did.
FirstTrue(run) ==
    IF \E i \in 1 .. Len(run) : run[i].ret
    THEN CHOOSE i \in 1 .. Len(run) :
            run[i].ret /\ \A j \in 1 .. i - 1 : ~run[j].ret
    ELSE 0

\* The batches ns, called in order from self after `covered` units, agree
\* with the run `units` of multi_trial(1) calls made from the sampler
\* `start`, whose first true is at unit u (0 if none): a batch that ends
\* before unit u returns false, takes no draw and leaves skip_count at the
\* start value minus the units covered, where the unit run leaves it too;
\* the batch that contains unit u returns true.
RECURSIVE BatchesAgree(_, _, _, _, _, _, _, _)
BatchesAgree(start, units, u, self, ns, covered, xs, dbg) ==
    IF ns = <<>> THEN TRUE
    ELSE LET r    == multi_trial(self, Head(ns), xs[1], dbg)
             upto == covered + Head(ns)
         IN  /\ ~r.panicked
             /\ IF u # 0 /\ u <= upto
                THEN r.ret
                ELSE /\ ~r.ret
                     /\ r.drew = 0
                     /\ r.self.skip_count = start.skip_count - upto
                     /\ r.self.skip_count = units[upto].skip_count
                     /\ BatchesAgree(start, units, u, r.self, Tail(ns), upto,
                                     Advance(xs, r), dbg)

\* C11: with probability > 0.0, for any batch sizes n_i >= 1, the first
\* multi_trial(n_i) that returns true is the batch containing the unit at
\* which a run of multi_trial(1) calls from the same state first returns
\* true; every earlier batch returns false, takes no draw and leaves
\* skip_count at the start value minus the units covered, as the same
\* number of multi_trial(1) calls does.
C11_BatchesAgreeWithUnits ==
    (Live /\ bernoulli.probability > 0) =>
        \A x \in XDraws :
            LET xs    == <<x, x>>
                units == MultiTrialRun(bernoulli,
                                       [i \in 1 .. MaxBatches * MaxCount |-> 1],
                                       xs, debug_assertions)
                u     == FirstTrue(units)
            IN  /\ Len(units) = MaxBatches * MaxCount
                /\ \A ns \in BatchSeqs :
                      BatchesAgree(bernoulli, units, u, bernoulli, ns, 0, xs,
                                   debug_assertions)

\* A multi_trial(n) with n >= 2 returned the first true of a sampler with
\* 0 < probability < 1, after an earlier call that returned false.
C11_Witness ==
    /\ Live /\ Interior(given)
    /\ op = "multi_trial" /\ arg_n >= 2 /\ result
    /\ calls >= 2 /\ trues = 1 /\ draws = 2

----------------------------------------------------------------------------
(* The geometric draw of the module comment: for a probability p strictly  *)
(* between 0 and 1 and x in [0, 1), floor(log(x) / log(1 - p)) over the    *)
(* reals, with 1 - p exact; it is unbounded at x = 0.  ClampedGeometric is *)
(* that value clamped to the counter's maximum.                            *)

ClampedGeometric(x, p) ==
    IF x = 0 THEN MaxCount
    ELSE LET k == FloorLogRatio(x, 16 - p, 0)
         IN  IF k > MaxCount THEN MaxCount ELSE k

\* The counter of sampler b is a fresh draw for b's probability.
FreshlyDrawn(b) ==
    IF Interior(b.probability)
    THEN \E x \in XDraws : b.skip_count = ClampedGeometric(x, b.probability)
    ELSE b.probability = 16 => b.skip_count = 0

\* C12: every trial() or multi_trial() call that returns true refreshed the
\* skip count in that call, so that after construction and after a true
\* result skip_count is a fresh draw (min(geometric draw, MAX) for
\* 0 < probability < 1, 0 for probability 1.0); and trial() returns true
\* only if skip_count() was 0 before the call.
C12_TrueMeansFreshDraw ==
    [][
        /\ (op' = "new" /\ state' = "live") => FreshlyDrawn(bernoulli')
        /\ (op' \in {"trial", "multi_trial"} /\ calls' = calls + 1
                /\ result') =>
              /\ refreshed'
              /\ FreshlyDrawn(bernoulli')
              /\ op' = "trial" => bernoulli.skip_count = 0
    ]_vars

\* C13: a refresh with 0 < probability < 1 takes a draw x and stores exactly
\* min(floor(ln(x) / ln(1 - probability)), MAX), the maximum also for x = 0
\* and for very small probabilities; it never fails.
C13_RefreshStoresClampedGeometric ==
    /\ (op = "new" /\ Interior(given)) => state = "live"
    /\ (Live /\ Interior(bernoulli.probability)) =>
          \A x \in XDraws :
              LET r == reset_skip_count(bernoulli, x, debug_assertions)
              IN  /\ ~r.panicked
                  /\ r.drew = 1
                  /\ r.self.skip_count
                        = ClampedGeometric(x, bernoulli.probability)

\* C14: for every probability strictly between 0.0 and 1.0 and every draw x
\* in [0.0, 1.0), the value the refresh computes is non-negative: the
\* assertion `skip_count >= 0.0` of reset_skip_count holds.
C14_ComputedSkipNonNegative ==
    (state # "none" /\ Interior(bernoulli.probability)) =>
        \A x \in XDraws : GeZero(F64SkipCount(x, bernoulli.probability))

\* C15: with 0 < probability < 1 the draws taken so far are 1 plus the
\* number of calls that returned true; no operation takes more than one
\* draw; with probability 0.0 or 1.0 no operation takes a draw.
C15_DrawsCountTrues ==
    (state # "none" /\ 0 <= given /\ given <= 16) =>
        /\ drew <= 1
        /\ Interior(given) => draws = 1 + trues
        /\ given \in {0, 16} => (draws = 0 /\ drew = 0)

\* Two true results, one of trial() and one before it, on a sampler with
\* 0 < probability < 1: three draws with the one of new.
C15_Witness ==
    /\ Live /\ Interior(given)
    /\ op = "trial" /\ result
    /\ trues = 2 /\ draws = 3 /\ calls >= 3

====
